---- MODULE Spec2Model ----
(***************************************************************************)
(* Out<'a, T> / Out<'a, [T]> of src/src/lib.rs: a write-only handle to one *)
(* element or to a contiguous run of elements that may be uninitialized.   *)
(*                                                                         *)
(* Memory is a flat array of element cells.  A cell is <<>> while it is    *)
(* uninitialized and <<v>> once it holds the value v.  A handle is the     *)
(* pointer `data` (a cell index), the slice length (1 for a scalar) and    *)
(* size_of::<T>(); an element of a zero-sized type occupies no cell.       *)
(***************************************************************************)
EXTENDS Integers, Sequences, FiniteSets, TLC

\* Bounds of the model.
MemSize == 3
MaxDepth == 2

\* for n in 0..128 in tests::fill_vec, and its sentinel 0x1234_5678.
FillVecEnd == 128
Sentinel == 305419896

VARIABLES mem, handles, last, drops, pc, n

vars == <<mem, handles, last, drops, pc, n>>

----------------------------------------------------------------------------
(* Cells, values, element sizes *)

Uninit == <<>>

Cell(v) == <<v>>

IsInit(c) == c # Uninit

\* size_of::<T>() of the element types handles are built for: (), u32.
HandleSizes == {0, 4}

\* size_of::<T>() of the element types raw_fill_copied branches on: (), u8, u32.
FillSizes == {0, 1, 4}

\* Two distinct element values tell a write from its absence.
Values == {1, 2}

\* The values of an element type; a zero-sized type has one inhabitant.
ValuesOf(es) == IF es = 0 THEN {1} ELSE Values

Addrs == 0..(MemSize - 1)

\* A read of cell a; a location outside the modelled storage holds nothing.
Load(m, a) == IF a \in DOMAIN m THEN m[a] ELSE Uninit

\* What a typed read of element i behind pointer `data` sees.
Elem(m, es, data, i) == IF es = 0 THEN Cell(1) ELSE Load(m, data + i)

\* The cells covered by `len` elements of size es starting at `data`.
Extent(data, cnt, es) == IF es = 0 THEN {} ELSE data..(data + cnt - 1)

Range(h) == Extent(h.data, h.len, h.esize)

AllInit(m, S) == \A a \in S : a \in DOMAIN m /\ IsInit(m[a])

Min(a, b) == IF a <= b THEN a ELSE b

----------------------------------------------------------------------------
(* The handle and its constructors *)

\* Out::new: wraps the pointer (and, for a slice, its length) unchanged.
new(data, cnt, esize, slice) ==
    [data |-> data, len |-> cnt, esize |-> esize, slice |-> slice]

from_mut(p, es) == new(p, 1, es, FALSE)

from_uninit(p, es) == new(p, 1, es, FALSE)

from_slice(p, cnt, es) == new(p, cnt, es, TRUE)

from_uninit_slice(p, cnt, es) == new(p, cnt, es, TRUE)

\* The four impls of AsOut::as_out.
as_out(shape, p, cnt, es) ==
    CASE shape = "T" -> from_mut(p, es)
      [] shape = "MaybeUninit<T>" -> from_uninit(p, es)
      [] shape = "[T]" -> from_slice(p, cnt, es)
      [] shape = "[MaybeUninit<T>]" -> from_uninit_slice(p, cnt, es)

Shapes == {"T", "MaybeUninit<T>", "[T]", "[MaybeUninit<T>]"}

reborrow_shifted(h) == [h EXCEPT !.data = h.data + 1]

\* Out::reborrow: a new handle with the same pointer.
reborrow(h) == [data |-> h.data, len |-> h.len, esize |-> h.esize, slice |-> h.slice]

\* Out<[T]>::len, is_empty, and as_mut_ptr of both shapes.
len(h) == h.len

is_empty(h) == len(h) = 0

as_mut_ptr(h) == h.data

NoRef == [data |-> 0, len |-> 0, esize |-> 0, valid |-> FALSE]

Ref(data, l, es) == [data |-> data, len |-> l, esize |-> es, valid |-> TRUE]

----------------------------------------------------------------------------
(* The writes.  Each operator returns the effect of one call: the memory   *)
(* after it, the destructor runs it caused, the cells it stored to and     *)
(* loaded from, how many ptr.write and ptr.add calls it made, the          *)
(* reference it returned and whether it panicked.                          *)

Effect(m, d, st, ld, nw, na, r, pan) ==
    [mem |-> m, drops |-> d, stores |-> st, loads |-> ld,
     nwrite |-> nw, nadd |-> na, ret |-> r, panicked |-> pan]

\* ptr.write(v) for an element of size es at cell p: a store of es bytes,
\* the previous content is not dropped.
Write(m, p, es, v) ==
    [a \in DOMAIN m |-> IF es # 0 /\ a = p THEN Cell(v) ELSE m[a]]

\* ptr::copy_nonoverlapping(src, dst, count): an untyped copy of count
\* elements, uninitialized cells included.  Overlapping ranges are undefined
\* behaviour; the callers modelled here never pass them.
copy_nonoverlapping(m, src, dst, count, es) ==
    [a \in DOMAIN m |->
        IF a \in Extent(dst, count, es) THEN Load(m, src + (a - dst)) ELSE m[a]]

overwrite_skip(m, d, h, v) ==
    Effect(m, d, {}, {}, 0, 0, Ref(as_mut_ptr(h), 1, h.esize), FALSE)

overwrite_assign(m, d, h, v) ==
    Effect(Write(m, as_mut_ptr(h), h.esize, v),
           IF AllInit(m, Range(h)) THEN d + 1 ELSE d,
           Extent(as_mut_ptr(h), 1, h.esize), {}, 1, 0,
           Ref(as_mut_ptr(h), 1, h.esize), FALSE)

\* Out<T>::overwrite
overwrite(m, d, h, v) ==
    LET ptr == as_mut_ptr(h)
    IN  Effect(Write(m, ptr, h.esize, v), d,
               Extent(ptr, 1, h.esize), {}, 1, 0,
               Ref(ptr, 1, h.esize), FALSE)

\* for i in 0..len { ptr.add(i).write(val) }, from iteration i on.
RECURSIVE FillLoop(_, _, _, _, _, _)
FillLoop(m, ptr, i, cnt, es, v) ==
    IF i < cnt THEN FillLoop(Write(m, ptr + i, es, v), ptr, i + 1, cnt, es, v)
    ELSE m

fill_copied_short(m, d, h, v) ==
    LET ptr == as_mut_ptr(h)
        cnt == IF len(h) = 0 THEN 0 ELSE len(h) - 1
    IN  Effect(FillLoop(m, ptr, 0, cnt, h.esize, v), d,
               Extent(ptr, cnt, h.esize), {}, cnt, cnt,
               Ref(ptr, len(h), h.esize), FALSE)

fill_copied_do_while(m, d, h, v) ==
    LET ptr == as_mut_ptr(h)
        cnt == IF len(h) = 0 THEN 1 ELSE len(h)
    IN  Effect(FillLoop(m, ptr, 0, cnt, h.esize, v), d,
               Extent(ptr, cnt, h.esize), {}, cnt, cnt,
               Ref(ptr, len(h), h.esize), FALSE)

\* Out<[T]>::fill_copied
fill_copied(m, d, h, v) ==
    LET ptr == as_mut_ptr(h)
        cnt == len(h)
    IN  Effect(FillLoop(m, ptr, 0, cnt, h.esize, v), d,
               Extent(ptr, cnt, h.esize), {}, cnt, cnt,
               Ref(ptr, cnt, h.esize), FALSE)

copy_from_slice_unchecked(m, d, h, src, srclen) ==
    LET cnt == Min(len(h), srclen)
        dst == as_mut_ptr(h)
    IN  Effect(copy_nonoverlapping(m, src, dst, cnt, h.esize), d,
               Extent(dst, cnt, h.esize), Extent(src, cnt, h.esize),
               0, 0, NoRef, FALSE)

copy_from_slice_swapped(m, d, h, src, srclen) ==
    IF len(h) # srclen
    THEN Effect(m, d, {}, {}, 0, 0, NoRef, TRUE)
    ELSE LET dst == as_mut_ptr(h)
         IN  Effect(copy_nonoverlapping(m, dst, src, srclen, h.esize), d,
                    Extent(src, srclen, h.esize), Extent(dst, srclen, h.esize),
                    0, 0, NoRef, FALSE)

\* Out<[T]>::copy_from_slice; src is the address of the source slice's
\* first element and srclen its length.
copy_from_slice(m, d, h, src, srclen) ==
    IF len(h) # srclen
    THEN Effect(m, d, {}, {}, 0, 0, NoRef, TRUE)
    ELSE LET cnt == srclen
             dst == as_mut_ptr(h)
         IN  Effect(copy_nonoverlapping(m, src, dst, cnt, h.esize), d,
                    Extent(dst, cnt, h.esize), Extent(src, cnt, h.esize),
                    0, 0, NoRef, FALSE)

\* Out has no Drop impl: disposing of a handle does nothing to the pointee.
drop_in_place(m, d, h) ==
    [mem |-> [a \in DOMAIN m |-> IF a \in Range(h) THEN Uninit ELSE m[a]],
     drops |-> IF AllInit(m, Range(h)) THEN d + 1 ELSE d]

drop_handle(m, d, h) == [mem |-> m, drops |-> d]

----------------------------------------------------------------------------
(* The program state.                                                      *)
(*   mem      the backing storage                                          *)
(*   handles  the live handle and, below it, the handles it was reborrowed *)
(*            from (suspended until it ends)                               *)
(*   last     the record of the last call: the handle h it was made on,    *)
(*            its arguments, the memory before it, its effect, and vals,   *)
(*            the contents a write was asked to put behind the handle.     *)
(*            The call that ends a handle carries the vals of the write    *)
(*            made through that handle just before (prev names the write). *)
(*   drops    destructor runs on the pointee so far                        *)
(*   pc, n    position and local n of tests::fill / raw_fill_copied        *)

NoArg == [val |-> 0, src |-> 0, dst |-> 0, srclen |-> 0]

NoHandle == [data |-> 0, len |-> 0, esize |-> 0, slice |-> FALSE]

NoEffect(m, d) == Effect(m, d, {}, {}, 0, 0, NoRef, FALSE)

Op(name, h, depth, arg, pre, eff, vals, prev) ==
    [op |-> name, h |-> h, depth |-> depth, arg |-> arg, pre |-> pre,
     stores |-> eff.stores, loads |-> eff.loads, nwrite |-> eff.nwrite,
     nadd |-> eff.nadd, ret |-> eff.ret, panicked |-> eff.panicked,
     vals |-> vals, prev |-> prev]

Depth == Len(handles)

Top == handles[Len(handles)]

InitMem == [Addrs -> {Uninit} \cup {Cell(v) : v \in Values}]

Init ==
    /\ mem \in InitMem
    /\ handles = <<>>
    /\ last = Op("init", NoHandle, 0, NoArg, mem, NoEffect(mem, 0), <<>>, "none")
    /\ drops = 0
    /\ pc = "idle"
    /\ n = 0

\* A handle is formed over storage the caller borrows exclusively.
Create(name, h) ==
    /\ handles = <<>>
    /\ handles' = <<h>>
    /\ last' = Op(name, h, 1, NoArg, mem, NoEffect(mem, drops), <<>>, "none")
    /\ UNCHANGED <<mem, drops, pc, n>>

\* &'a mut T: the pointee is initialized.
FromMut ==
    \E p \in Addrs, es \in HandleSizes :
        /\ AllInit(mem, Extent(p, 1, es))
        /\ Create("from_mut", from_mut(p, es))

\* &'a mut MaybeUninit<T>: the pointee may or may not be initialized.
FromUninit ==
    \E p \in Addrs, es \in HandleSizes :
        Create("from_uninit", from_uninit(p, es))

\* &'a mut [T]
FromSlice ==
    \E p \in Addrs, cnt \in 0..MemSize, es \in HandleSizes :
        /\ p + cnt <= MemSize
        /\ AllInit(mem, Extent(p, cnt, es))
        /\ Create("from_slice", from_slice(p, cnt, es))

\* &'a mut [MaybeUninit<T>]
FromUninitSlice ==
    \E p \in Addrs, cnt \in 0..MemSize, es \in HandleSizes :
        /\ p + cnt <= MemSize
        /\ Create("from_uninit_slice", from_uninit_slice(p, cnt, es))

AsOut ==
    \E shape \in Shapes, p \in Addrs, cnt \in 0..MemSize, es \in HandleSizes :
        /\ p + cnt <= MemSize
        /\ shape \in {"T", "MaybeUninit<T>"} => cnt = 1
        /\ shape \in {"T", "[T]"} => AllInit(mem, Extent(p, cnt, es))
        /\ Create("as_out", as_out(shape, p, cnt, es))

Reborrow ==
    /\ Depth >= 1
    /\ Depth < MaxDepth
    /\ handles' = Append(handles, reborrow(Top))
    /\ last' = Op("reborrow", Top, Depth, NoArg, mem, NoEffect(mem, drops), <<>>, "none")
    /\ UNCHANGED <<mem, drops, pc, n>>

\* len, is_empty and as_mut_ptr read the handle and nothing else.
Query(name, res) ==
    /\ last' = Op(name, Top, Depth, [NoArg EXCEPT !.val = res], mem,
                  NoEffect(mem, drops), <<>>, "none")
    /\ UNCHANGED <<mem, handles, drops, pc, n>>

LenOp == Depth >= 1 /\ Top.slice /\ Query("len", len(Top))

IsEmptyOp == Depth >= 1 /\ Top.slice /\ Query("is_empty", IF is_empty(Top) THEN 1 ELSE 0)

AsMutPtr == Depth >= 1 /\ Query("as_mut_ptr", as_mut_ptr(Top))

\* A write through the live handle.
Apply(name, arg, eff, vals) ==
    /\ mem' = eff.mem
    /\ drops' = eff.drops
    /\ last' = Op(name, Top, Depth, arg, mem, eff, vals, "none")
    /\ UNCHANGED <<handles, pc, n>>

Overwrite ==
    /\ Depth >= 1
    /\ ~Top.slice
    /\ \E v \in ValuesOf(Top.esize) :
          Apply("overwrite", [NoArg EXCEPT !.val = v],
                overwrite(mem, drops, Top, v), <<Cell(v)>>)

FillCopied ==
    /\ Depth >= 1
    /\ Top.slice
    /\ \E v \in ValuesOf(Top.esize) :
          Apply("fill_copied", [NoArg EXCEPT !.val = v],
                fill_copied(mem, drops, Top, v), [i \in 1..Top.len |-> Cell(v)])

\* The source is a shared slice &[T]: initialized, and disjoint from the
\* storage the handle borrows exclusively.
CopyFromSlice ==
    /\ Depth >= 1
    /\ Top.slice
    /\ \E src \in Addrs, srclen \in 0..MemSize :
          /\ src + srclen <= MemSize
          /\ AllInit(mem, Extent(src, srclen, Top.esize))
          /\ Extent(src, srclen, Top.esize) \cap Range(Top) = {}
          /\ Apply("copy_from_slice",
                   [NoArg EXCEPT !.src = src, !.dst = Top.data, !.srclen = srclen],
                   copy_from_slice(mem, drops, Top, src, srclen),
                   [i \in 1..srclen |-> Elem(mem, Top.esize, src, i - 1)])

WriteOps == {"overwrite", "fill_copied", "copy_from_slice"}

\* The last call was a completed write through the live handle.
JustWritten ==
    /\ last.op \in WriteOps
    /\ last.depth = Depth
    /\ ~last.panicked

\* The live handle ends; the one it was reborrowed from is live again.
Pop(name, r, after) ==
    /\ handles' = SubSeq(handles, 1, Depth - 1)
    /\ mem' = after.mem
    /\ drops' = after.drops
    /\ last' = Op(name, Top, Depth, NoArg, mem,
                  [NoEffect(mem, drops) EXCEPT !.ret = r],
                  IF JustWritten THEN last.vals ELSE <<>>,
                  IF JustWritten THEN last.op ELSE "none")
    /\ UNCHANGED <<pc, n>>

\* Safety contract of assume_init: the referenced value is initialized.
AssumeInit ==
    /\ Depth >= 1
    /\ AllInit(mem, Range(Top))
    /\ Pop("assume_init", Ref(Top.data, Top.len, Top.esize),
           [mem |-> mem, drops |-> drops])

IntoUninit ==
    /\ Depth >= 1
    /\ Pop("into_uninit", Ref(Top.data, Top.len, Top.esize),
           [mem |-> mem, drops |-> drops])

DropHandle ==
    /\ Depth >= 1
    /\ Pop("drop", NoRef, drop_handle(mem, drops, Top))

Next ==
    \/ FromMut
    \/ FromUninit
    \/ FromSlice
    \/ FromUninitSlice
    \/ AsOut
    \/ Reborrow
    \/ LenOp
    \/ IsEmptyOp
    \/ AsMutPtr
    \/ Overwrite
    \/ FillCopied
    \/ CopyFromSlice
    \/ AssumeInit
    \/ IntoUninit
    \/ DropHandle

Spec == Init /\ [][Next]_vars

----------------------------------------------------------------------------
(* tests::fill over a buffer of N uninitialized elements, as fill_vec      *)
(* drives it: as_out over the spare capacity, raw_fill_copied step by      *)
(* step, assume_init, set_len, and the loop that checks every element.     *)

\* The value filled in: 0x1234_5678, cut to a byte for a one-byte element.
FillVal(es) == IF es = 0 THEN 1 ELSE IF es = 1 THEN Sentinel % 256 ELSE Sentinel

\* dst.write_bytes(val, len)
write_bytes(m, dst, val, cnt) ==
    [a \in DOMAIN m |-> IF a \in dst..(dst + cnt - 1) THEN Cell(val) ELSE m[a]]

LoopCond_whole(k, cnt) == k <= cnt

\* while n <= len / 2
LoopCond(k, cnt) == k <= cnt \div 2

\* let count = len - n
TailCount(cnt, k) == cnt - k

InitFill ==
    \E cap \in 0..(FillVecEnd - 1), es \in FillSizes :
        /\ mem = [a \in 0..(cap - 1) |-> Uninit]
        /\ handles = <<as_out("[MaybeUninit<T>]", 0, cap, es)>>
        /\ last = Op("as_out", handles[1], 1, NoArg, mem, NoEffect(mem, 0), <<>>, "none")
        /\ drops = 0
        /\ pc = "fill"
        /\ n = 0

FillStep(name, arg, eff, pc2, n2) ==
    /\ mem' = eff.mem
    /\ drops' = eff.drops
    /\ last' = Op(name, Top, Depth, arg, mem, eff, <<>>, "none")
    /\ pc' = pc2
    /\ n' = n2
    /\ UNCHANGED handles

BlockCopy(src, dst, count) ==
    Effect(copy_nonoverlapping(mem, src, dst, count, Top.esize), drops,
           Extent(dst, count, Top.esize), Extent(src, count, Top.esize),
           0, 1, NoRef, FALSE)

\* The entry of raw_fill_copied, up to the first write.
RawFillEnter ==
    /\ pc = "fill"
    /\ LET cnt == len(Top)
           dst == as_mut_ptr(Top)
           val == FillVal(Top.esize)
       IN  \/ /\ Top.esize = 0
              /\ FillStep("return", NoArg, NoEffect(mem, drops), "filled", n)
           \/ /\ Top.esize # 0
              /\ cnt = 0
              /\ FillStep("return", NoArg, NoEffect(mem, drops), "filled", n)
           \/ /\ Top.esize = 1
              /\ cnt # 0
              /\ FillStep("write_bytes", [NoArg EXCEPT !.val = val, !.dst = dst, !.srclen = cnt],
                          Effect(write_bytes(mem, dst, val, cnt), drops,
                                 dst..(dst + cnt - 1), {}, 0, 0, NoRef, FALSE),
                          "filled", n)
           \/ /\ Top.esize > 1
              /\ cnt # 0
              /\ FillStep("write", [NoArg EXCEPT !.val = val, !.dst = dst],
                          Effect(Write(mem, dst, Top.esize, val), drops,
                                 {dst}, {}, 1, 0, NoRef, FALSE),
                          "loop", 1)

\* One test of the while loop, and its body when the test passes.
RawFillLoop ==
    /\ pc = "loop"
    /\ LET cnt == len(Top)
           dst == as_mut_ptr(Top)
       IN  \/ /\ LoopCond(n, cnt)
              /\ FillStep("copy_nonoverlapping",
                          [NoArg EXCEPT !.src = dst, !.dst = dst + n, !.srclen = n],
                          BlockCopy(dst, dst + n, n), "loop", n * 2)
           \/ /\ ~LoopCond(n, cnt)
              /\ pc' = "tail"
              /\ UNCHANGED <<mem, handles, last, drops, n>>

\* The copy of the remaining elements.
RawFillTail ==
    /\ pc = "tail"
    /\ LET cnt == len(Top)
           dst == as_mut_ptr(Top)
           count == TailCount(cnt, n)
       IN  \/ /\ count > 0
              /\ FillStep("copy_nonoverlapping",
                          [NoArg EXCEPT !.src = dst, !.dst = dst + n, !.srclen = count],
                          BlockCopy(dst, dst + n, count), "filled", n)
           \/ /\ ~(count > 0)
              /\ FillStep("return", NoArg, NoEffect(mem, drops), "filled", n)

\* fill returns buf.assume_init().
FillReturn ==
    /\ pc = "filled"
    /\ handles' = <<>>
    /\ last' = Op("assume_init", Top, Depth, NoArg, mem,
                  [NoEffect(mem, drops) EXCEPT !.ret = Ref(Top.data, Top.len, Top.esize)],
                  <<>>, "none")
    /\ pc' = "set_len"
    /\ UNCHANGED <<mem, drops, n>>

\* v.set_len(n)
SetLen ==
    /\ pc = "set_len"
    /\ pc' = "verify"
    /\ UNCHANGED <<mem, handles, last, drops, n>>

\* for &x in &v { assert_eq!(x, 0x1234_5678) }
Verify ==
    /\ pc = "verify"
    /\ pc' = IF \A i \in 0..(last.h.len - 1) :
                   Elem(mem, last.h.esize, last.h.data, i) = Cell(FillVal(last.h.esize))
             THEN "done"
             ELSE "assert_failed"
    /\ UNCHANGED <<mem, handles, last, drops, n>>

NextFill ==
    \/ RawFillEnter
    \/ RawFillLoop
    \/ RawFillTail
    \/ FillReturn
    \/ SetLen
    \/ Verify

SpecFill == InitFill /\ [][NextFill]_vars

----------------------------------------------------------------------------
(* Properties *)

\* Every cell outside the extent S is as it was before the last call.
FrameOutside(S) == \A a \in DOMAIN mem : a \notin S => mem[a] = last.pre[a]

PopOps == {"drop", "assume_init", "into_uninit"}

\* C1: after fill_copied(v) on a slice handle of length N, each of the N
\* elements equals v, the returned slice has length N and starts at the
\* handle's pointer, and nothing outside the N elements has been written.
FillCopiedCorrect ==
    last.op = "fill_copied" =>
        /\ \A i \in 0..(last.h.len - 1) :
              Elem(mem, last.h.esize, last.h.data, i) = Cell(last.arg.val)
        /\ last.ret.valid
        /\ last.ret.len = last.h.len
        /\ last.ret.data = last.h.data
        /\ last.stores \subseteq Range(last.h)
        /\ FrameOutside(Range(last.h))

FillCopiedWitness ==
    /\ last.op = "fill_copied"
    /\ last.h.esize = 4
    /\ last.h.len = 2
    /\ last.pre[last.h.data] = Uninit
    /\ last.pre[last.h.data + 1] # Cell(last.arg.val)

\* C2: the reference overwrite(v) returns points at the handle's location and
\* reads v; assume_init() called right after overwrite(v) on the same handle
\* returns a reference to that location, which reads v, whatever the location
\* held before.
WriteReadRoundTrip ==
    /\ last.op = "overwrite" =>
          /\ last.ret.valid
          /\ last.ret.data = last.h.data
          /\ Elem(mem, last.ret.esize, last.ret.data, 0) = Cell(last.arg.val)
    /\ (last.op = "assume_init" /\ last.prev = "overwrite") =>
          /\ last.ret.valid
          /\ last.ret.data = last.h.data
          /\ Elem(mem, last.ret.esize, last.ret.data, 0) = last.vals[1]

RoundTripWitness ==
    /\ last.op = "assume_init"
    /\ last.prev = "overwrite"
    /\ last.h.esize = 4
    /\ last.vals = <<Cell(2)>>

\* C3: copy_from_slice(src) with src.len() = self.len() completes; every
\* destination element then equals the source element of the same index,
\* the source is unchanged and nothing outside the destination is written.
CopyFromSliceCorrect ==
    (last.op = "copy_from_slice" /\ last.arg.srclen = last.h.len) =>
        /\ ~last.panicked
        /\ \A i \in 0..(last.h.len - 1) :
              Elem(mem, last.h.esize, last.h.data, i)
                  = Elem(last.pre, last.h.esize, last.arg.src, i)
        /\ \A a \in Extent(last.arg.src, last.arg.srclen, last.h.esize) :
              mem[a] = last.pre[a]
        /\ last.stores \subseteq Range(last.h)
        /\ FrameOutside(Range(last.h))

CopyFromSliceWitness ==
    /\ last.op = "copy_from_slice"
    /\ last.h.esize = 4
    /\ last.h.len = 1
    /\ last.arg.srclen = 1
    /\ last.pre[last.h.data] # last.pre[last.arg.src]

\* C4: copy_from_slice(src) with src.len() # self.len() panics before any
\* store: the memory, initialized or not, is what it was before the call.
LengthMismatchAborts ==
    (last.op = "copy_from_slice" /\ last.arg.srclen # last.h.len) =>
        /\ last.panicked
        /\ mem = last.pre
        /\ last.stores = {}
        /\ last.loads = {}

LengthMismatchWitness ==
    /\ last.op = "copy_from_slice"
    /\ last.h.esize = 4
    /\ last.h.len = 2
    /\ last.arg.srclen = 1
    /\ last.pre[last.h.data] # last.pre[last.arg.src]
    /\ last.panicked

\* C6: a reborrowed handle has the pointer and the length of the handle it
\* was reborrowed from, reborrow changes no memory, and what was written
\* through a handle is what the handle below it addresses once it is gone.
ReborrowVisibility ==
    /\ \A i \in 1..Depth :
          /\ handles[i].data = handles[1].data
          /\ handles[i].len = handles[1].len
    /\ last.op = "reborrow" =>
          /\ mem = last.pre
          /\ Top.data = last.h.data
          /\ Top.len = last.h.len
    /\ (last.op \in PopOps /\ last.prev # "none" /\ Depth >= 1) =>
          \A i \in 1..Len(last.vals) :
              Elem(mem, Top.esize, Top.data, i - 1) = last.vals[i]

ReborrowWitness ==
    /\ last.op = "drop"
    /\ last.prev = "fill_copied"
    /\ Depth = 1
    /\ Top.esize = 4
    /\ Top.len = 2
    /\ last.vals = <<Cell(2), Cell(2)>>

\* C7: on a slice handle of length 0, fill_copied and copy_from_slice of an
\* empty source store nothing, load nothing, return normally and leave the
\* memory unchanged; is_empty() is true exactly for length 0.
ZeroLengthSafety ==
    /\ (/\ last.op \in {"fill_copied", "copy_from_slice"}
        /\ last.h.len = 0
        /\ last.arg.srclen = 0) =>
          /\ last.stores = {}
          /\ last.loads = {}
          /\ last.nwrite = 0
          /\ last.nadd = 0
          /\ ~last.panicked
          /\ mem = last.pre
    /\ last.op = "is_empty" => (last.arg.val = 1 <=> last.h.len = 0)

ZeroLengthWitness ==
    /\ last.op = "fill_copied"
    /\ last.h.len = 0
    /\ last.h.esize = 4
    /\ last.pre[last.h.data] = Uninit

\* C8: no call de-initializes a cell: a cell initialized before a call is
\* initialized after it, and behind a handle made from an initialized
\* reference every element is initialized.
NeverDeinitialized ==
    /\ \A a \in DOMAIN mem : IsInit(last.pre[a]) => IsInit(mem[a])
    /\ last.op \in {"from_mut", "from_slice"} => AllInit(mem, Range(Top))

NeverDeinitializedWitness ==
    /\ last.op = "copy_from_slice"
    /\ ~last.panicked
    /\ last.h.esize = 4
    /\ last.h.len = 1
    /\ IsInit(last.pre[last.h.data])
    /\ mem[last.h.data] # last.pre[last.h.data]

\* C9: no call runs a destructor on the pointee: the count of destructor
\* runs stays where it started, overwrite stores into an initialized
\* location without dropping its content, and ending a handle leaves the
\* storage as it is.
NoDestructorRuns ==
    /\ drops = 0
    /\ last.op \in PopOps => mem = last.pre

NoDestructorWitness ==
    /\ last.op = "overwrite"
    /\ last.h.esize = 4
    /\ IsInit(last.pre[last.h.data])
    /\ mem[last.h.data] # last.pre[last.h.data]

\* C10: for a zero-sized element type fill_copied returns without a single
\* ptr.write or ptr.add, whatever the length of the slice.
ZeroSizedFillShortCircuit ==
    (last.op = "fill_copied" /\ last.h.esize = 0) =>
        /\ last.stores = {}
        /\ last.nwrite = 0
        /\ last.nadd = 0

\* C5: raw_fill_copied on N uninitialized elements of size > 1 writes
\* element 0, copies the written prefix of length n to position n while
\* n <= N / 2, then copies the remaining N - n elements; every copy reads
\* written elements only, from a range apart from the one it writes, no
\* element outside the N is touched, and in the end all N elements hold the
\* sentinel.
PrefixWritten ==
    /\ 1 <= n
    /\ n <= last.h.len
    /\ \A a \in 0..(n - 1) : mem[a] = Cell(Sentinel)
    /\ \A a \in n..(last.h.len - 1) : mem[a] = Uninit

DoublingFillCorrect ==
    last.h.esize > 1 =>
        /\ (last.stores \cup last.loads) \subseteq Range(last.h)
        /\ last.op = "write" => last.stores = {last.h.data}
        /\ last.op = "copy_nonoverlapping" =>
              /\ AllInit(last.pre, last.loads)
              /\ last.loads \cap last.stores = {}
              /\ last.arg.src = last.h.data
        /\ pc = "loop" => PrefixWritten
        /\ (pc = "loop" /\ last.op = "copy_nonoverlapping") =>
              /\ n = 2 * last.arg.srclen
              /\ last.arg.dst = last.h.data + last.arg.srclen
              /\ last.arg.srclen <= last.h.len \div 2
        /\ pc = "tail" => (PrefixWritten /\ n > last.h.len \div 2)
        /\ (pc = "filled" /\ last.op = "copy_nonoverlapping") =>
              /\ last.arg.dst = last.h.data + n
              /\ last.arg.srclen = last.h.len - n
        /\ pc \in {"filled", "set_len", "verify", "done"} =>
              \A a \in Range(last.h) : mem[a] = Cell(Sentinel)
        /\ pc # "assert_failed"

DoublingFillWitness ==
    /\ pc = "filled"
    /\ last.op = "copy_nonoverlapping"
    /\ last.h.esize = 4
    /\ last.h.len = 100
    /\ n = 64
    /\ last.arg.srclen = 36

====
